---- MODULE Spec2Model ----
(***************************************************************************)
(* Model of unholy's resource lifecycle manager (src/unholy/compose.py):   *)
(* the Compose wrapper (label-based discovery, volume and container        *)
(* creation) and UnholyCompose (workspace volume, bootstrap session,       *)
(* devenv provisioning), run against a container daemon, and find_compose, *)
(* run against a file system.                                              *)
(*                                                                         *)
(* The daemon is the environment.  It is modelled as a store of volumes    *)
(* and containers, identified by name, on which the calls the code makes   *)
(* act atomically.  Python strings are TLA+ strings; a dict is a function  *)
(* whose DOMAIN is its key set.                                            *)
(***************************************************************************)
EXTENDS Naturals, Sequences, FiniteSets, TLC

VARIABLES
    project_name,         \* Compose.project_name
    project_volume_name,  \* UnholyCompose.project_volume_name
    dev_image,            \* config['dev']['image']
    volumes,              \* daemon: the volumes (client.volumes)
    containers,           \* daemon: the containers (client.containers)
    images,               \* daemon: the images present locally
    pc,                   \* position of the manager's caller
    op,                   \* the operation in progress, or the last one run
    raised,               \* the exception the last operation raised, or None
    ret,                  \* the name of the resource the last operation returned
    cont,                 \* name of the container handle held by the operation
    pending,              \* exception raised by the caller's work in a session
    calls,                \* daemon calls issued by the operation, in order
    scripts,              \* devenv_create's argument
    idx,                  \* devenv_create's loop index (enumerate, from 0)
    execs,                \* inject_and_run calls of the operation, in order
    listed,               \* result of the last volume_list / container_list
    cwd,                  \* Path.cwd(): the components of the working directory
    compose_dirs,         \* file system: directories with a docker-compose.yml
    curdir                \* find_compose's curdir

vars == <<project_name, project_volume_name, dev_image, volumes, containers,
          images, pc, op, raised, ret, cont, pending, calls, scripts, idx,
          execs, listed, cwd, compose_dirs, curdir>>

\* the file system side of the state, which the daemon calls leave alone
fs == <<cwd, compose_dirs, curdir>>

(***************************************************************************)
(* Bounds of the model.                                                    *)
(***************************************************************************)
\* longest script sequence handed to devenv_create
MaxScripts == 3

\* most resources the direct calls of the Compose layer put on the daemon
MaxCreated == 2

\* the script entries devenv_create is tried on: an empty one, one without
\* and one with an interpreter directive
ScriptTexts == {"", "echo a", "#!/bin/bash\necho b"}

ScriptSeqs == UNION {[1..n -> ScriptTexts] : n \in 0..MaxScripts}

\* the project names and workspace labels managers are configured with
ProjectNames == {"demo", "dem"}
VolumeNames == {"ws", "src"}
DevImages == {"debian:stable"}

\* the arguments Compose.volume_create and Compose.container_create are
\* tried on; CallerLabels is filled in below, once the label keys are named
ServiceNames == {"devenv", "web"}
OneOffs == {<<>>, <<TRUE>>, <<FALSE>>}

(***************************************************************************)
(* Python values.                                                          *)
(***************************************************************************)
None == "<None>"

\* the empty dict
EmptyDict == [k \in {} |-> None]

\* d.get(k)
Get(d, k) == IF k \in DOMAIN d THEN d[k] ELSE None

\* a | b : the keys of both, b's value where both have the key
Merge(a, b) == [k \in (DOMAIN a) \cup (DOMAIN b) |->
                    IF k \in DOMAIN b THEN b[k] ELSE a[k]]

\* s.startswith(p)
StartsWith(s, p) == Len(s) >= Len(p) /\ SubSeq(s, 1, Len(p)) = p

\* An optional dict argument (labels=None, environment=None) and a nullable
\* attribute (attrs['Labels']) are <<>> for None and <<d>> for the dict d.
Null == <<>>
Some(d) == <<d>>
IsNull(o) == Len(o) = 0

\* repr(bool(x)) for a boolean x
ReprBool(b) == IF b THEN "True" ELSE "False"

(***************************************************************************)
(* class Label                                                             *)
(***************************************************************************)
Label_Project == "com.docker.compose.project"
Label_Service == "com.docker.compose.service"
Label_Volume == "com.docker.compose.volume"
Label_OneOff == "com.docker.compose.oneoff"

(***************************************************************************)
(* class UnholyCompose: constants                                          *)
(***************************************************************************)
BOOTSTRAP_IMAGE == "ghcr.io/astraluma/unholy/bootstrap:nightly"
PROJECT_MOUNTPOINT == "/project"
DEVENV_SERVICE == "devenv"
BOOTSTRAP_SERVICE == "bootstrap"

(***************************************************************************)
(* The daemon's resources.                                                 *)
(*   volume    [name, Labels]    Labels is attrs['Labels']: Null when the  *)
(*                               volume was made without labels            *)
(*   container [name, image, labels, environment, mounts, auto_remove,     *)
(*              status]          labels is Container.labels, always a dict *)
(***************************************************************************)
Volume(name, labels) == [name |-> name, Labels |-> Some(labels)]

\* mount(target, volume) of .docker: a volume mount of `volume` at `target`
mount(target, vol) == [target |-> target, source |-> vol.name, type |-> "volume"]

(***************************************************************************)
(* class Compose                                                           *)
(***************************************************************************)
\* volume_list raises AttributeError when it reaches a volume whose
\* attrs['Labels'] is None: None has no .get
volume_list_raises(vols) == \E vol \in vols : IsNull(vol.Labels)

\* volume_list, consumed to its end
volume_list(vols) ==
    {vol \in vols : /\ ~IsNull(vol.Labels)
                    /\ Get(vol.Labels[1], Label_Project) = project_name}

\* volume_create naming the volume by the bare name, without the project
volume_create_unprefixed(name, labels) ==
    Volume(name,
           Merge((Label_Project :> project_name) @@ (Label_Volume :> name),
                 IF IsNull(labels) THEN EmptyDict ELSE labels[1]))

\* the volume volume_create asks the daemon for
volume_create(name, labels) ==
    Volume(project_name \o "_" \o name,
           Merge((Label_Project :> project_name) @@ (Label_Volume :> name),
                 IF IsNull(labels) THEN EmptyDict ELSE labels[1]))

\* _socket_mount_opts
socket_environment == ("DOCKER_HOST" :> "unix:///var/run/docker.sock")
socket_mounts == <<[target |-> "/var/run/docker.sock",
                   source |-> "/var/run/docker.sock", type |-> "bind"]>>

\* container_list, consumed to its end
container_list(cons) ==
    {con \in cons : Get(con.labels, Label_Project) = project_name}

\* container_create letting the caller's labels replace the defaults
container_labels_replaced(service, one_off, labels) ==
    IF ~IsNull(labels) THEN labels[1]
    ELSE (Label_Project :> project_name) @@ (Label_Service :> service)

\* container_create merging the other way round: the defaults win
container_labels_defaults_win(service, one_off, labels) ==
    LET default_labels ==
            IF IsNull(one_off)
            THEN (Label_Project :> project_name) @@ (Label_Service :> service)
            ELSE (Label_Project :> project_name) @@ (Label_Service :> service)
                 @@ (Label_OneOff :> ReprBool(one_off[1]))
    IN  IF ~IsNull(labels) THEN Merge(labels[1], default_labels)
        ELSE default_labels

\* the labels container_create attaches
container_labels(service, one_off, labels) ==
    LET default_labels ==
            IF IsNull(one_off)
            THEN (Label_Project :> project_name) @@ (Label_Service :> service)
            ELSE (Label_Project :> project_name) @@ (Label_Service :> service)
                 @@ (Label_OneOff :> ReprBool(one_off[1]))
    IN  IF ~IsNull(labels) THEN Merge(default_labels, labels[1])
        ELSE default_labels

\* container_create with the passthrough replacing what the caller gave
container_create_socket_replaces(service, image, kw) ==
    [name |-> project_name \o "-" \o service \o "-1",
     image |-> image,
     labels |-> container_labels(service, kw.one_off, kw.labels),
     environment |->
        IF kw.mount_docker_socket THEN Some(socket_environment)
        ELSE kw.environment,
     mounts |->
        IF kw.mount_docker_socket THEN Some(socket_mounts) ELSE kw.mounts,
     auto_remove |-> kw.auto_remove,
     status |-> "created"]

\* the container container_create asks the daemon for (not started); kw holds
\* the keyword arguments one_off, labels, mount_docker_socket, environment,
\* mounts and, of **opts, auto_remove
container_create(service, image, kw) ==
    [name |-> project_name \o "-" \o service \o "-1",
     image |-> image,
     labels |-> container_labels(service, kw.one_off, kw.labels),
     environment |->
        IF kw.mount_docker_socket
        THEN Some(Merge(IF IsNull(kw.environment) THEN EmptyDict
                        ELSE kw.environment[1], socket_environment))
        ELSE kw.environment,
     mounts |->
        IF kw.mount_docker_socket
        THEN Some((IF IsNull(kw.mounts) THEN <<>> ELSE kw.mounts[1])
                  \o socket_mounts)
        ELSE kw.mounts,
     auto_remove |-> kw.auto_remove,
     status |-> "created"]

\* client.containers.create refuses a name in use (409 Conflict, an APIError)
name_in_use(cons, name) == \E con \in cons : con.name = name

\* smart_pull of .docker: pulls the image only when the daemon has none
smart_pull(imgs, ref) == IF ref \in imgs THEN imgs ELSE imgs \cup {ref}

(***************************************************************************)
(* Exceptions.  NotFound (404) is a docker.errors.APIError; APIError here  *)
(* is any other error the daemon reports.                                  *)
(***************************************************************************)
IsAPIError(e) == e \in {"APIError", "NotFound"}

\* one daemon call of the log: what was called and how it ended
Call(what, result) == [call |-> what, result |-> result]

\* the daemon calls that change the daemon's state
MutatingCalls == {"images.pull", "volumes.create", "volume.remove",
                  "containers.create", "container.start", "container.stop",
                  "container.remove", "container.exec"}

(***************************************************************************)
(* class UnholyCompose                                                     *)
(***************************************************************************)
\* the project's volumes whose volume label is the workspace's
workspace_volumes(vols) ==
    {vol \in volume_list(vols) :
        Get(vol.Labels[1], Label_Volume) = project_volume_name}

\* workspace_get: the first such volume, or None
workspace_get(vols) ==
    IF workspace_volumes(vols) = {} THEN Null
    ELSE Some(CHOOSE vol \in workspace_volumes(vols) : TRUE)

\* devenv_get: the first container of the project whose service is devenv
devenv_get(cons) ==
    LET found == {con \in container_list(cons) :
                     Get(con.labels, Label_Service) = DEVENV_SERVICE}
    IN  IF found = {} THEN Null ELSE Some(CHOOSE con \in found : TRUE)

\* fix_script
fix_script(script) ==
    IF ~StartsWith(script, "#!") THEN "#!/bin/sh\n" \o script ELSE script

\* the operation `name` starts: what the last one left is forgotten
Begin(name) ==
    /\ pc = "idle"
    /\ op' = name

\* the operation ends raising `exc` (None: it returns `value`)
End(exc, value) ==
    /\ pc' = "idle"
    /\ raised' = exc
    /\ ret' = value

\* workspace_create as a get-or-create: an existing workspace is handed back
workspace_create_get_or_create ==
    /\ Begin("workspace_create")
    /\ IF ~IsNull(workspace_get(volumes))
       THEN /\ End(None, workspace_get(volumes)[1].name)
            /\ calls' = <<Call("volumes.list", "ok")>>
            /\ UNCHANGED volumes
       ELSE LET vol == volume_create(project_volume_name, Null)
            IN  /\ volumes' = volumes \cup {vol}
                /\ calls' = <<Call("volumes.list", "ok"),
                              Call("volumes.create", "ok")>>
                /\ End(None, vol.name)
    /\ cont' = None /\ pending' = None
    /\ scripts' = <<>> /\ idx' = 0 /\ execs' = <<>>
    /\ UNCHANGED <<project_name, project_volume_name, dev_image, containers,
                   images, listed>>
    /\ UNCHANGED fs

\* workspace_create without its assert
workspace_create_unchecked ==
    /\ Begin("workspace_create")
    /\ LET vol == volume_create(project_volume_name, Null)
       IN  /\ volumes' = volumes \cup {vol}
           /\ calls' = <<Call("volumes.create", "ok")>>
           /\ End(None, vol.name)
    /\ cont' = None /\ pending' = None
    /\ scripts' = <<>> /\ idx' = 0 /\ execs' = <<>>
    /\ UNCHANGED <<project_name, project_volume_name, dev_image, containers,
                   images, listed>>
    /\ UNCHANGED fs

\* workspace_create
workspace_create ==
    /\ Begin("workspace_create")
    /\ IF ~IsNull(workspace_get(volumes))
       THEN /\ End("AssertionError", None)
            /\ calls' = <<Call("volumes.list", "ok")>>
            /\ UNCHANGED volumes
       ELSE LET vol == volume_create(project_volume_name, Null)
            IN  /\ volumes' = volumes \cup {vol}
                /\ calls' = <<Call("volumes.list", "ok"),
                              Call("volumes.create", "ok")>>
                /\ End(None, vol.name)
    /\ cont' = None /\ pending' = None
    /\ scripts' = <<>> /\ idx' = 0 /\ execs' = <<>>
    /\ UNCHANGED <<project_name, project_volume_name, dev_image, containers,
                   images, listed>>
    /\ UNCHANGED fs

\* workspace_delete looking the volume up among all the daemon's volumes, by
\* the volume label alone
workspace_delete_any_project ==
    /\ Begin("workspace_delete")
    /\ LET found == {vol \in volumes :
                        /\ ~IsNull(vol.Labels)
                        /\ Get(vol.Labels[1], Label_Volume)
                                = project_volume_name}
       IN  IF found # {}
           THEN /\ volumes' = volumes \ {CHOOSE vol \in found : TRUE}
                /\ calls' = <<Call("volumes.list", "ok"),
                              Call("volume.remove", "ok")>>
           ELSE /\ UNCHANGED volumes
                /\ calls' = <<Call("volumes.list", "ok")>>
    /\ End(None, None)
    /\ cont' = None /\ pending' = None
    /\ scripts' = <<>> /\ idx' = 0 /\ execs' = <<>>
    /\ UNCHANGED <<project_name, project_volume_name, dev_image, containers,
                   images, listed>>
    /\ UNCHANGED fs

\* workspace_delete
workspace_delete ==
    /\ Begin("workspace_delete")
    /\ LET vol == workspace_get(volumes)
       IN  IF ~IsNull(vol)
           THEN /\ volumes' = volumes \ {vol[1]}
                /\ calls' = <<Call("volumes.list", "ok"),
                              Call("volume.remove", "ok")>>
           ELSE /\ UNCHANGED volumes
                /\ calls' = <<Call("volumes.list", "ok")>>
    /\ End(None, None)
    /\ cont' = None /\ pending' = None
    /\ scripts' = <<>> /\ idx' = 0 /\ execs' = <<>>
    /\ UNCHANGED <<project_name, project_volume_name, dev_image, containers,
                   images, listed>>
    /\ UNCHANGED fs

\* the daemon's containers with the one named `name` in status `status`
WithStatus(cons, name, status) ==
    {IF con.name = name THEN [con EXCEPT !.status = status] ELSE con :
        con \in cons}

\* the daemon's containers without the one named `name`
Without(cons, name) == {con \in cons : con.name # name}

\* the daemon calls of smart_pull, workspace_get and the failed assert
PullAndGet == <<Call("images.pull", "ok"), Call("volumes.list", "ok")>>

\* bootstrap_spawn putting a container of its own in the place of one that
\* holds the name
bootstrap_spawn_replaces_existing ==
    /\ Begin("bootstrap_spawn")
    /\ images' = smart_pull(images, BOOTSTRAP_IMAGE)
    /\ LET proj == workspace_get(volumes)
       IN  IF IsNull(proj)
           THEN /\ End("AssertionError", None)
                /\ calls' = PullAndGet
                /\ cont' = None
                /\ UNCHANGED containers
           ELSE LET con == container_create(BOOTSTRAP_SERVICE, BOOTSTRAP_IMAGE,
                               [one_off |-> Some(TRUE), labels |-> Null,
                                mount_docker_socket |-> TRUE,
                                environment |-> Null,
                                mounts |-> Some(<<mount(PROJECT_MOUNTPOINT,
                                                        proj[1])>>),
                                auto_remove |-> TRUE])
                IN  /\ containers' = Without(containers, con.name) \cup
                            {[con EXCEPT !.status = "running"]}
                    /\ calls' = PullAndGet \o
                            (IF name_in_use(containers, con.name)
                             THEN <<Call("container.remove", "ok")>>
                             ELSE <<>>) \o
                            <<Call("containers.create", "ok"),
                              Call("container.start", "ok")>>
                    /\ cont' = con.name
                    /\ pc' = "bs_work"
                    /\ raised' = None /\ ret' = None
    /\ pending' = None
    /\ scripts' = <<>> /\ idx' = 0 /\ execs' = <<>>
    /\ UNCHANGED <<project_name, project_volume_name, dev_image, volumes,
                   listed>>
    /\ UNCHANGED fs

\* bootstrap_spawn up to its yield: pull, workspace_get, assert,
\* container_create, start
bootstrap_spawn ==
    /\ Begin("bootstrap_spawn")
    /\ images' = smart_pull(images, BOOTSTRAP_IMAGE)
    /\ LET proj == workspace_get(volumes)
       IN  IF IsNull(proj)
           THEN /\ End("AssertionError", None)
                /\ calls' = PullAndGet
                /\ cont' = None
                /\ UNCHANGED containers
           ELSE LET con == container_create(BOOTSTRAP_SERVICE, BOOTSTRAP_IMAGE,
                               [one_off |-> Some(TRUE), labels |-> Null,
                                mount_docker_socket |-> TRUE,
                                environment |-> Null,
                                mounts |-> Some(<<mount(PROJECT_MOUNTPOINT,
                                                        proj[1])>>),
                                auto_remove |-> TRUE])
                IN  IF name_in_use(containers, con.name)
                    THEN /\ End("APIError", None)
                         /\ calls' = PullAndGet \o
                                <<Call("containers.create", "APIError")>>
                         /\ cont' = None
                         /\ UNCHANGED containers
                    ELSE \/ /\ containers' = containers \cup
                                    {[con EXCEPT !.status = "running"]}
                            /\ calls' = PullAndGet \o
                                    <<Call("containers.create", "ok"),
                                      Call("container.start", "ok")>>
                            /\ cont' = con.name
                            /\ pc' = "bs_work"
                            /\ raised' = None /\ ret' = None
                         \/ \* the start fails: the created container is
                            \* left, or the daemon removes it (auto_remove)
                            /\ \/ containers' = containers \cup {con}
                               \/ UNCHANGED containers
                            /\ calls' = PullAndGet \o
                                    <<Call("containers.create", "ok"),
                                      Call("container.start", "APIError")>>
                            /\ cont' = con.name
                            /\ End("APIError", None)
    /\ pending' = None
    /\ scripts' = <<>> /\ idx' = 0 /\ execs' = <<>>
    /\ UNCHANGED <<project_name, project_volume_name, dev_image, volumes,
                   listed>>
    /\ UNCHANGED fs

\* the body of the with statement: the caller's work on the handle returns
\* or raises; the container's process may exit meanwhile, and the daemon
\* then removes the container (auto_remove)
caller_work ==
    /\ pc = "bs_work"
    /\ pc' = "bs_exit"
    /\ \E exc \in {None, "CallerError"} : pending' = exc
    /\ \/ UNCHANGED containers
       \/ containers' = Without(containers, cont)
    /\ UNCHANGED <<project_name, project_volume_name, dev_image, volumes,
                   images, op, raised, ret, cont, calls, scripts, idx, execs,
                   listed>>
    /\ UNCHANGED fs

\* bootstrap_spawn's finally block: cont.stop(), then cont.remove() with
\* docker.errors.APIError passed over
bootstrap_exit ==
    /\ pc = "bs_exit"
    /\ IF ~name_in_use(containers, cont)
       THEN \* stop of a container that is gone: 404
            /\ calls' = calls \o <<Call("container.stop", "NotFound")>>
            /\ End("NotFound", None)
            /\ UNCHANGED containers
       ELSE \/ \* the daemon fails the stop: the exception leaves the block
               /\ calls' = calls \o <<Call("container.stop", "APIError")>>
               /\ End("APIError", None)
               /\ UNCHANGED containers
            \/ \* stopped; remove then succeeds, or finds the container
               \* auto-removed already (404), or is failed by the daemon
               \* with the container left behind; an APIError is passed over
               \E result \in {"ok", "NotFound", "APIError"} :
                  /\ calls' = calls \o <<Call("container.stop", "ok"),
                                          Call("container.remove", result)>>
                  /\ containers' =
                        IF result = "APIError"
                        THEN WithStatus(containers, cont, "exited")
                        ELSE Without(containers, cont)
                  /\ IF result = "ok" \/ IsAPIError(result)
                     THEN End(pending, None)
                     ELSE End(result, None)
    /\ UNCHANGED <<project_name, project_volume_name, dev_image, volumes,
                   images, op, cont, pending, scripts, idx, execs, listed>>
    /\ UNCHANGED fs

\* devenv_create making the workspace volume itself when there is none
devenv_create_makes_workspace ==
    /\ Begin("devenv_create")
    /\ images' = smart_pull(images, dev_image)
    /\ execs' = <<>> /\ idx' = 0
    /\ pending' = None
    /\ LET got == workspace_get(volumes)
           proj == IF IsNull(got) THEN volume_create(project_volume_name, Null)
                   ELSE got[1]
           con == container_create(DEVENV_SERVICE, dev_image,
                       [one_off |-> Null, labels |-> Null,
                        mount_docker_socket |-> TRUE, environment |-> Null,
                        mounts |-> Some(<<mount(PROJECT_MOUNTPOINT, proj)>>),
                        auto_remove |-> FALSE])
       IN  /\ volumes' = volumes \cup {proj}
           /\ IF name_in_use(containers, con.name)
              THEN /\ End("APIError", None)
                   /\ calls' = PullAndGet \o
                            <<Call("containers.create", "APIError")>>
                   /\ cont' = None /\ scripts' = <<>>
                   /\ UNCHANGED containers
              ELSE /\ containers' = containers \cup
                            {[con EXCEPT !.status = "running"]}
                   /\ calls' = PullAndGet \o
                            <<Call("containers.create", "ok"),
                              Call("container.start", "ok")>>
                   /\ cont' = con.name
                   /\ \E given \in ScriptSeqs : scripts' = given
                   /\ pc' = "dv_loop"
                   /\ raised' = None /\ ret' = None
    /\ UNCHANGED <<project_name, project_volume_name, dev_image, listed>>
    /\ UNCHANGED fs

\* devenv_create up to its loop: pull, workspace_get, assert,
\* container_create, start
devenv_create ==
    /\ Begin("devenv_create")
    /\ images' = smart_pull(images, dev_image)
    /\ execs' = <<>> /\ idx' = 0
    /\ pending' = None
    /\ LET proj == workspace_get(volumes)
       IN  IF IsNull(proj)
           THEN /\ End("AssertionError", None)
                /\ calls' = PullAndGet
                /\ cont' = None /\ scripts' = <<>>
                /\ UNCHANGED containers
           ELSE LET con == container_create(DEVENV_SERVICE, dev_image,
                               [one_off |-> Null, labels |-> Null,
                                mount_docker_socket |-> TRUE,
                                environment |-> Null,
                                mounts |-> Some(<<mount(PROJECT_MOUNTPOINT,
                                                        proj[1])>>),
                                auto_remove |-> FALSE])
                IN  IF name_in_use(containers, con.name)
                    THEN /\ End("APIError", None)
                         /\ calls' = PullAndGet \o
                                <<Call("containers.create", "APIError")>>
                         /\ cont' = None /\ scripts' = <<>>
                         /\ UNCHANGED containers
                    ELSE \/ /\ containers' = containers \cup
                                    {[con EXCEPT !.status = "running"]}
                            /\ calls' = PullAndGet \o
                                    <<Call("containers.create", "ok"),
                                      Call("container.start", "ok")>>
                            /\ cont' = con.name
                            /\ \E given \in ScriptSeqs : scripts' = given
                            /\ pc' = "dv_loop"
                            /\ raised' = None /\ ret' = None
                         \/ /\ containers' = containers \cup {con}
                            /\ calls' = PullAndGet \o
                                    <<Call("containers.create", "ok"),
                                      Call("container.start", "APIError")>>
                            /\ cont' = con.name /\ scripts' = <<>>
                            /\ End("APIError", None)
    /\ UNCHANGED <<project_name, project_volume_name, dev_image, volumes,
                   listed>>
    /\ UNCHANGED fs

\* inject_and_run of .docker, as devenv_create calls it: the script runs in
\* the container under `name` and ends well or fails
Exec(name, text, result) == [name |-> name, text |-> text, result |-> result]

\* the loop naming each script by the count of those run before it
devenv_script_renumbered ==
    /\ pc = "dv_loop"
    /\ idx < Len(scripts)
    /\ LET script == scripts[idx + 1]
           name == "unholyscript-" \o ToString(Len(execs))
       IN  IF script # ""
           THEN \/ /\ execs' = Append(execs,
                                  Exec(name, fix_script(script), "ok"))
                   /\ calls' = Append(calls, Call("container.exec", "ok"))
                   /\ idx' = idx + 1
                   /\ UNCHANGED <<pc, raised, ret>>
                \/ /\ execs' = Append(execs,
                                  Exec(name, fix_script(script), "failed"))
                   /\ calls' = Append(calls,
                                      Call("container.exec", "ScriptError"))
                   /\ UNCHANGED idx
                   /\ End("ScriptError", None)
           ELSE /\ idx' = idx + 1
                /\ UNCHANGED <<pc, raised, ret, execs, calls>>
    /\ UNCHANGED <<project_name, project_volume_name, dev_image, volumes,
                   containers, images, op, cont, pending, scripts, listed>>
    /\ UNCHANGED fs

\* the loop going on to the next entry after a script has failed
devenv_script_continues ==
    /\ pc = "dv_loop"
    /\ idx < Len(scripts)
    /\ LET script == scripts[idx + 1]
           name == "unholyscript-" \o ToString(idx)
       IN  IF script # ""
           THEN \E result \in {"ok", "failed"} :
                   /\ execs' = Append(execs,
                                  Exec(name, fix_script(script), result))
                   /\ calls' = Append(calls,
                                  Call("container.exec",
                                       IF result = "ok" THEN "ok"
                                       ELSE "ScriptError"))
                   /\ idx' = idx + 1
                   /\ UNCHANGED <<pc, raised, ret>>
           ELSE /\ idx' = idx + 1
                /\ UNCHANGED <<pc, raised, ret, execs, calls>>
    /\ UNCHANGED <<project_name, project_volume_name, dev_image, volumes,
                   containers, images, op, cont, pending, scripts, listed>>
    /\ UNCHANGED fs

\* the loop removing the container when a script fails
devenv_script_cleans_up ==
    /\ pc = "dv_loop"
    /\ idx < Len(scripts)
    /\ LET script == scripts[idx + 1]
           name == "unholyscript-" \o ToString(idx)
       IN  IF script # ""
           THEN \/ /\ execs' = Append(execs,
                                  Exec(name, fix_script(script), "ok"))
                   /\ calls' = Append(calls, Call("container.exec", "ok"))
                   /\ idx' = idx + 1
                   /\ UNCHANGED <<pc, raised, ret, containers>>
                \/ /\ execs' = Append(execs,
                                  Exec(name, fix_script(script), "failed"))
                   /\ calls' = calls \o
                                <<Call("container.exec", "ScriptError"),
                                  Call("container.stop", "ok"),
                                  Call("container.remove", "ok")>>
                   /\ containers' = Without(containers, cont)
                   /\ UNCHANGED idx
                   /\ End("ScriptError", None)
           ELSE /\ idx' = idx + 1
                /\ UNCHANGED <<pc, raised, ret, execs, calls, containers>>
    /\ UNCHANGED <<project_name, project_volume_name, dev_image, volumes,
                   images, op, cont, pending, scripts, listed>>
    /\ UNCHANGED fs

\* one turn of devenv_create's loop over enumerate(scripts)
devenv_script ==
    /\ pc = "dv_loop"
    /\ idx < Len(scripts)
    /\ LET script == scripts[idx + 1]
           name == "unholyscript-" \o ToString(idx)
       IN  IF script # ""
           THEN \/ /\ execs' = Append(execs,
                                  Exec(name, fix_script(script), "ok"))
                   /\ calls' = Append(calls, Call("container.exec", "ok"))
                   /\ idx' = idx + 1
                   /\ UNCHANGED <<pc, raised, ret>>
                \/ /\ execs' = Append(execs,
                                  Exec(name, fix_script(script), "failed"))
                   /\ calls' = Append(calls,
                                      Call("container.exec", "ScriptError"))
                   /\ UNCHANGED idx
                   /\ End("ScriptError", None)
           ELSE /\ idx' = idx + 1
                /\ UNCHANGED <<pc, raised, ret, execs, calls>>
    /\ UNCHANGED <<project_name, project_volume_name, dev_image, volumes,
                   containers, images, op, cont, pending, scripts, listed>>
    /\ UNCHANGED fs

\* devenv_create returns the container once the loop is over
devenv_return ==
    /\ pc = "dv_loop"
    /\ idx = Len(scripts)
    /\ End(None, cont)
    /\ UNCHANGED <<project_name, project_volume_name, dev_image, volumes,
                   containers, images, op, cont, pending, calls, scripts, idx,
                   execs, listed>>
    /\ UNCHANGED fs

(***************************************************************************)
(* The daemon before the manager's first call.  Beside the project's own   *)
(* resources it holds resources of other projects, whose names have the    *)
(* manager's project name as a prefix or are a prefix of it, and resources *)
(* with no project label.                                                  *)
(***************************************************************************)
OtherProjects == {"dem", "demo", "demo2"} \ {project_name}

\* volumes that are not the project's: other projects' workspaces, a volume
\* with the workspace's volume label and no project label, one with an
\* empty label dict
ForeignVolumes ==
    {Volume(q \o "_" \o project_volume_name,
            (Label_Project :> q) @@ (Label_Volume :> project_volume_name)) :
        q \in OtherProjects}
    \cup {Volume("cache", (Label_Volume :> project_volume_name)),
          Volume("scratch", EmptyDict)}

\* a volume made without labels: attrs['Labels'] is None
UnlabelledVolume == [name |-> "anon", Labels |-> Null]

\* the workspace volume as this manager names it, and one the orchestration
\* tool made for the same project and volume label under a name of its own
NamedWorkspace == volume_create(project_volume_name, Null)
CustomWorkspace ==
    [NamedWorkspace EXCEPT !.name = "custom-" \o project_volume_name]

\* a container as the daemon holds it
Container(name, labels, status) ==
    [name |-> name, image |-> "busybox", labels |-> labels,
     environment |-> Null, mounts |-> Null, auto_remove |-> FALSE,
     status |-> status]

\* containers that are not the project's: other projects' devenvs and a
\* container without labels
ForeignContainers ==
    {Container(q \o "-" \o DEVENV_SERVICE \o "-1",
               (Label_Project :> q) @@ (Label_Service :> DEVENV_SERVICE),
               "running") : q \in OtherProjects}
    \cup {Container("stray", EmptyDict, "exited")}

Config ==
    /\ project_name \in ProjectNames
    /\ project_volume_name \in VolumeNames
    /\ dev_image \in DevImages

Quiet ==
    /\ images = {}
    /\ pc = "idle" /\ op = None /\ raised = None /\ ret = None
    /\ cont = None /\ pending = None /\ calls = <<>>
    /\ scripts = <<>> /\ idx = 0 /\ execs = <<>>
    /\ listed = {}
    /\ cwd = <<>> /\ compose_dirs = {} /\ curdir = <<>>

\* a daemon with or without the other projects' resources and with at most
\* one workspace volume of the project.  Every volume here carries a label
\* dict and none but the project's own has the name {project}_{workspace};
\* the listing of volumes without labels is the subject of SpecDiscovery.
\* The daemon answers list, pull and the volume calls; it may fail
\* container start, stop and remove, and refuses a container name in use.
Init ==
    /\ Config
    /\ Quiet
    /\ \E foreign \in {{}, ForeignVolumes},
          own \in {{}, {NamedWorkspace}, {CustomWorkspace}} :
            volumes = foreign \cup own
    /\ containers \in {{}, ForeignContainers}

Next ==
    \/ workspace_create
    \/ workspace_delete
    \/ bootstrap_spawn
    \/ caller_work
    \/ bootstrap_exit
    \/ devenv_create
    \/ devenv_script
    \/ devenv_return

Spec == Init /\ [][Next]_vars

(***************************************************************************)
(* Discovery alone, over every mixture of resources: the project's own,    *)
(* other projects', resources without the project label, and a volume      *)
(* without labels.                                                         *)
(***************************************************************************)
\* containers of the project, as container_create makes them
OwnContainers ==
    {Container(project_name \o "-" \o DEVENV_SERVICE \o "-1",
               (Label_Project :> project_name)
               @@ (Label_Service :> DEVENV_SERVICE), "running")}

\* Compose.volume_list, consumed to its end by the caller
call_volume_list ==
    /\ Begin("volume_list")
    /\ IF volume_list_raises(volumes)
       THEN /\ End("AttributeError", None)
            /\ listed' = {}
       ELSE /\ End(None, None)
            /\ listed' = volume_list(volumes)
    /\ calls' = <<Call("volumes.list", "ok")>>
    /\ UNCHANGED <<project_name, project_volume_name, dev_image, volumes,
                   containers, images, cont, pending, scripts, idx, execs>>
    /\ UNCHANGED fs

\* Compose.container_list, consumed to its end by the caller
call_container_list ==
    /\ Begin("container_list")
    /\ End(None, None)
    /\ listed' = container_list(containers)
    /\ calls' = <<Call("containers.list", "ok")>>
    /\ UNCHANGED <<project_name, project_volume_name, dev_image, volumes,
                   containers, images, cont, pending, scripts, idx, execs>>
    /\ UNCHANGED fs

InitDiscovery ==
    /\ Config
    /\ Quiet
    /\ volumes \in SUBSET (ForeignVolumes \cup
                            {UnlabelledVolume, NamedWorkspace})
    /\ containers \in SUBSET (ForeignContainers \cup OwnContainers)

NextDiscovery ==
    \/ call_volume_list
    \/ call_container_list

SpecDiscovery == InitDiscovery /\ [][NextDiscovery]_vars

(***************************************************************************)
(* The Compose layer called directly: volume_create and container_create   *)
(* with caller-supplied labels.                                            *)
(***************************************************************************)
\* labels a caller passes: none, an empty dict, a key of its own, and the
\* project, volume and service keys themselves
CallerLabels ==
    {Null, Some(EmptyDict), Some("owner" :> "me"),
     Some(Label_Project :> "demo2"),
     Some((Label_Volume :> "other") @@ (Label_Service :> "other"))}

\* labels a caller passes to container_create: those, and the one-off key
ContainerCallerLabels == CallerLabels \cup {Some(Label_OneOff :> "no")}

\* Compose.volume_create: the daemon makes the volume, or hands back the
\* one that has the name already
call_volume_create(name, labels) ==
    /\ Begin("volume_create")
    /\ LET vol == volume_create(name, labels)
       IN  /\ volumes' = IF \E v \in volumes : v.name = vol.name
                         THEN volumes ELSE volumes \cup {vol}
           /\ End(None, vol.name)
    /\ calls' = <<Call("volumes.create", "ok")>>
    /\ UNCHANGED <<project_name, project_volume_name, dev_image, containers,
                   images, cont, pending, scripts, idx, execs, listed>>
    /\ UNCHANGED fs

\* Compose.container_create: the daemon makes the container, or refuses the
\* name
call_container_create(service, kw) ==
    /\ Begin("container_create")
    /\ LET con == container_create(service, "busybox", kw)
       IN  IF name_in_use(containers, con.name)
           THEN /\ End("APIError", None)
                /\ calls' = <<Call("containers.create", "APIError")>>
                /\ UNCHANGED containers
           ELSE /\ End(None, con.name)
                /\ calls' = <<Call("containers.create", "ok")>>
                /\ containers' = containers \cup {con}
    /\ UNCHANGED <<project_name, project_volume_name, dev_image, volumes,
                   images, cont, pending, scripts, idx, execs, listed>>
    /\ UNCHANGED fs

\* the resources the calls have put on the daemon
Created == (volumes \ ForeignVolumes) \cup (containers \ ForeignContainers)

\* the keyword arguments container_create is tried on
FactoryKw ==
    [one_off : OneOffs, labels : ContainerCallerLabels,
     mount_docker_socket : {FALSE},
     environment : {Null}, mounts : {Null}, auto_remove : {FALSE}]

InitFactory ==
    /\ Config
    /\ project_volume_name = "ws"
    /\ Quiet
    /\ \/ volumes = {} /\ containers = {}
       \/ volumes = ForeignVolumes /\ containers = ForeignContainers

NextFactory ==
    \/ /\ Cardinality(Created) < MaxCreated
       /\ \E name \in VolumeNames, labels \in CallerLabels :
                call_volume_create(name, labels)
    \/ /\ Cardinality(Created) < MaxCreated
       /\ \E service \in ServiceNames, kw \in FactoryKw :
                call_container_create(service, kw)

SpecFactory == InitFactory /\ [][NextFactory]_vars

(***************************************************************************)
(* Managers of several projects on one daemon, each calling                *)
(* container_create: project and service names with and without a hyphen.  *)
(***************************************************************************)
\* the containers the daemon may come to hold in this specification
MaxNamed == 2

NamingProjects == {"a", "a-b"}
NamingServices == {"c", "b-c"}

\* keyword arguments that leave the project and service labels alone
NamingKw ==
    [one_off : {Null, Some(TRUE)}, labels : {Null, Some("owner" :> "me")},
     mount_docker_socket : {FALSE, TRUE}, environment : {Null},
     mounts : {Null}, auto_remove : {FALSE}]

\* Compose.__init__: a manager of the project `name` on the same daemon
compose_init(name) ==
    /\ Begin("__init__")
    /\ project_name' = name
    /\ End(None, None)
    /\ calls' = <<>>
    /\ UNCHANGED <<project_volume_name, dev_image, volumes, containers,
                   images, cont, pending, scripts, idx, execs, listed>>
    /\ UNCHANGED fs

InitNaming ==
    /\ project_name \in NamingProjects
    /\ project_volume_name = "ws"
    /\ dev_image \in DevImages
    /\ Quiet
    /\ volumes = {} /\ containers = {}

NextNaming ==
    \/ \E name \in NamingProjects : compose_init(name)
    \/ /\ Cardinality(containers) < MaxNamed
       /\ \E service \in NamingServices, kw \in NamingKw :
                call_container_create(service, kw)

SpecNaming == InitNaming /\ [][NextNaming]_vars

(***************************************************************************)
(* container_create with and without the daemon-socket passthrough, over   *)
(* the environments and mounts a caller passes.                            *)
(***************************************************************************)
\* environment dicts of the caller: none, empty, an entry of its own, and
\* an entry for the daemon endpoint itself
CallerEnvironments ==
    {Null, Some(EmptyDict), Some("LANG" :> "C"),
     Some(("DOCKER_HOST" :> "tcp://remote:2375") @@ ("LANG" :> "C"))}

\* mount lists of the caller: none, empty, the workspace at /project
CallerMounts ==
    {Null, Some(<<>>), Some(<<mount(PROJECT_MOUNTPOINT, NamedWorkspace)>>)}

SocketKw ==
    [one_off : {Null}, labels : {Null}, mount_docker_socket : {FALSE, TRUE},
     environment : CallerEnvironments, mounts : CallerMounts,
     auto_remove : {FALSE}]

InitSocket ==
    /\ Config
    /\ project_volume_name = "ws"
    /\ Quiet
    /\ volumes = {NamedWorkspace} /\ containers = {}

NextSocket ==
    \E service \in ServiceNames, kw \in SocketKw :
        call_container_create(service, kw)

SpecSocket == InitSocket /\ [][NextSocket]_vars

(***************************************************************************)
(* find_compose over a working directory at some depth below the file      *)
(* system's root.  A path is the sequence of its components, the root the  *)
(* empty one.                                                              *)
(***************************************************************************)
\* the deepest working directory
MaxDepth == 4

\* the directory d levels below the root on the way to the working directory
Directory(d) == [i \in 1..d |-> "d" \o ToString(i)]

\* a directory that is no ancestor of any working directory
Elsewhere == <<"d1", "elsewhere">>

\* Path.parent: the root is its own parent
parent(path) ==
    IF path = <<>> THEN <<>> ELSE SubSeq(path, 1, Len(path) - 1)

\* str(path)
RECURSIVE joined(_)
joined(path) ==
    IF path = <<>> THEN ""
    ELSE joined(parent(path)) \o "/" \o path[Len(path)]
as_posix(path) == IF path = <<>> THEN "/" ELSE joined(path)

\* (path).exists(), for a path named docker-compose.yml
exists(path) ==
    \E dir \in compose_dirs : path = Append(dir, "docker-compose.yml")

\* find_compose up to its loop
find_compose ==
    /\ pc = "idle"
    /\ op' = "find_compose"
    /\ curdir' = cwd
    /\ pc' = "fc_while"
    /\ raised' = None /\ ret' = None
    /\ UNCHANGED <<project_name, project_volume_name, dev_image, volumes,
                   containers, images, cont, pending, calls, scripts, idx,
                   execs, listed, cwd, compose_dirs>>

\* one turn of the while loop
find_compose_turn ==
    /\ pc = "fc_while"
    /\ parent(curdir) # curdir
    /\ IF exists(Append(curdir, "docker-compose.yml"))
       THEN /\ End(None, as_posix(Append(curdir, "docker-compose.yml")))
            /\ UNCHANGED curdir
       ELSE /\ curdir' = parent(curdir)
            /\ UNCHANGED <<pc, raised, ret>>
    /\ UNCHANGED <<project_name, project_volume_name, dev_image, volumes,
                   containers, images, op, cont, pending, calls, scripts, idx,
                   execs, listed, cwd, compose_dirs>>

\* the loop's else clause
find_compose_else ==
    /\ pc = "fc_while"
    /\ parent(curdir) = curdir
    /\ End("FileNotFoundError", None)
    /\ UNCHANGED <<project_name, project_volume_name, dev_image, volumes,
                   containers, images, op, cont, pending, calls, scripts, idx,
                   execs, listed, cwd, compose_dirs, curdir>>

InitFind ==
    /\ Config
    /\ project_name = "demo" /\ project_volume_name = "ws"
    /\ volumes = {} /\ containers = {} /\ images = {}
    /\ pc = "idle" /\ op = None /\ raised = None /\ ret = None
    /\ cont = None /\ pending = None /\ calls = <<>>
    /\ scripts = <<>> /\ idx = 0 /\ execs = <<>>
    /\ listed = {}
    /\ \E depth \in 0..MaxDepth :
        /\ cwd = Directory(depth)
        /\ compose_dirs \in
                SUBSET ({Directory(d) : d \in 0..depth} \cup {Elsewhere})
    /\ curdir = <<>>

NextFind ==
    \/ find_compose
    \/ find_compose_turn
    \/ find_compose_else

SpecFind == InitFind /\ [][NextFind]_vars

(***************************************************************************)
(* Vocabulary of the properties.                                           *)
(***************************************************************************)
\* the volumes among vols labelled as the workspace of the manager's project
ProjectWorkspaces(vols) ==
    {v \in vols : /\ ~IsNull(v.Labels)
                  /\ Label_Project \in DOMAIN v.Labels[1]
                  /\ v.Labels[1][Label_Project] = project_name
                  /\ Label_Volume \in DOMAIN v.Labels[1]
                  /\ v.Labels[1][Label_Volume] = project_volume_name}

\* the daemon calls of the log that were made as `what`
CallsOf(what) == {k \in 1..Len(calls) : calls[k].call = what}

\* a bootstrap session has ended: its finally block has run
SessionEnded ==
    /\ pc = "idle"
    /\ op = "bootstrap_spawn"
    /\ CallsOf("container.stop") # {}

\* the bootstrap container is on the daemon and container_list yields it
BootstrapListed ==
    \E con \in containers :
        /\ con.name = project_name \o "-bootstrap-1"
        /\ Label_Project \in DOMAIN con.labels
        /\ con.labels[Label_Project] = project_name

(***************************************************************************)
(* C1: after a bootstrap session ends, the bootstrap container is absent   *)
(* from container_list of the project, whether the caller's work returned  *)
(* or raised.                                                              *)
(***************************************************************************)
C1_NoOrphanedBootstrap == SessionEnded => ~BootstrapListed

(***************************************************************************)
(* C2: when the caller's work in a bootstrap session raises, that same     *)
(* error is what the caller of bootstrap_spawn observes; a failure of stop *)
(* or remove never replaces it.                                            *)
(***************************************************************************)
C2_CallerErrorPropagates ==
    (SessionEnded /\ pending # None) => raised = pending

(***************************************************************************)
(* C3: a failure of the removal is passed over only when it is the         *)
(* container-already-removed failure; any other removal failure the daemon *)
(* reports reaches the session's caller (here: when the caller's work      *)
(* raised nothing itself).                                                 *)
(***************************************************************************)
C3_OtherRemovalFailurePropagates ==
    (/\ SessionEnded
     /\ pending = None
     /\ \E k \in CallsOf("container.remove") : calls[k].result = "APIError")
    => raised = "APIError"

(***************************************************************************)
(* C4: workspace_create, called when the project has no workspace volume,  *)
(* creates exactly one volume, named {project}_{workspace label} and       *)
(* labelled {project, volume}, and a workspace_get right afterwards        *)
(* returns that volume.                                                    *)
(***************************************************************************)
C4_CreateMakesTheWorkspace ==
    [][(workspace_create /\ ProjectWorkspaces(volumes) = {}) =>
        LET want == [name |-> project_name \o "_" \o project_volume_name,
                     Labels |-> <<(Label_Project :> project_name)
                                  @@ (Label_Volume :> project_volume_name)>>]
        IN  /\ volumes \subseteq volumes'
            /\ volumes' \ volumes = {want}
            /\ raised' = None
            /\ ret' = want.name
            /\ workspace_get(volumes') = <<want>>]_vars

C4_Witness ==
    /\ pc = "idle" /\ op = "workspace_create" /\ raised = None
    /\ ret = project_name \o "_" \o project_volume_name
    /\ \E v \in ProjectWorkspaces(volumes) : v.name = ret
    /\ Cardinality(volumes) > 1

(***************************************************************************)
(* C5: workspace_create on a project that has a workspace volume raises    *)
(* the precondition violation (AssertionError) and leaves the daemon's     *)
(* volumes as they were.                                                   *)
(***************************************************************************)
C5_CreateTwiceIsRefused ==
    [][(workspace_create /\ ProjectWorkspaces(volumes) # {}) =>
        /\ raised' = "AssertionError"
        /\ volumes' = volumes]_vars

C5_Witness ==
    /\ pc = "idle" /\ op = "workspace_create" /\ raised = "AssertionError"
    /\ ProjectWorkspaces(volumes) # {}

(***************************************************************************)
(* C6: whatever workspace_create, workspace_delete, bootstrap_spawn and    *)
(* devenv_create calls the manager makes, the daemon holds at most one     *)
(* workspace volume of the project.                                        *)
(***************************************************************************)
C6_AtMostOneWorkspace == Cardinality(ProjectWorkspaces(volumes)) <= 1

C6_Witness ==
    /\ pc = "idle" /\ op = "workspace_create" /\ raised = "AssertionError"
    /\ \E v \in ProjectWorkspaces(volumes) :
            v.name # project_name \o "_" \o project_volume_name
    /\ Cardinality(ProjectWorkspaces(volumes)) = 1

(***************************************************************************)
(* C7: workspace_delete removes the project's workspace volume when there  *)
(* is one, so that workspace_get then returns None; when there is none it  *)
(* raises nothing and makes no mutating daemon call: volumes, containers   *)
(* and images stay as they were.                                           *)
(***************************************************************************)
C7_DeleteRemovesOrDoesNothing ==
    [][workspace_delete =>
        /\ raised' = None
        /\ IsNull(workspace_get(volumes'))
        /\ ProjectWorkspaces(volumes') = {}
        /\ volumes' = volumes \ ProjectWorkspaces(volumes)
        /\ containers' = containers
        /\ (ProjectWorkspaces(volumes) = {} =>
                /\ volumes' = volumes
                /\ images' = images
                /\ \A k \in 1..Len(calls') :
                        calls'[k].call \notin MutatingCalls)]_vars

C7_Witness ==
    /\ pc = "idle" /\ op = "workspace_delete" /\ raised = None
    /\ \A k \in 1..Len(calls) : calls[k].call \notin MutatingCalls
    /\ \E v \in volumes :
            /\ Get(v.Labels[1], Label_Volume) = project_volume_name
            /\ Get(v.Labels[1], Label_Project) # project_name

(***************************************************************************)
(* C8: whatever mixture of resources the daemon holds (the project's,      *)
(* other projects' whose names are prefixes or extensions of the           *)
(* project's name, resources without the project label or without any      *)
(* label), volume_list and container_list complete without error and       *)
(* yield exactly the resources whose project label equals the manager's    *)
(* project name.                                                           *)
(***************************************************************************)
C8_DiscoveryIsExact ==
    /\ op = "volume_list" =>
        /\ raised = None
        /\ listed = {v \in volumes :
                        /\ ~IsNull(v.Labels)
                        /\ Label_Project \in DOMAIN v.Labels[1]
                        /\ v.Labels[1][Label_Project] = project_name}
    /\ op = "container_list" =>
        /\ raised = None
        /\ listed = {c \in containers :
                        /\ Label_Project \in DOMAIN c.labels
                        /\ c.labels[Label_Project] = project_name}

(***************************************************************************)
(* C9 as claimed: every volume volume_create puts on the daemon and every  *)
(* container container_create puts there carries the project label with    *)
(* the manager's project name, whatever labels the caller passes, and is   *)
(* yielded by volume_list / container_list.                                *)
(***************************************************************************)
C9_AlwaysOwnProjectLabel ==
    [][/\ \A v \in volumes' \ volumes :
            /\ Get(v.Labels[1], Label_Project) = project_name
            /\ v \in volume_list(volumes')
       /\ \A c \in containers' \ containers :
            /\ Get(c.labels, Label_Project) = project_name
            /\ c \in container_list(containers')]_vars

\* the caller's labels name the project key themselves
GivesProject(labels) ==
    /\ ~IsNull(labels)
    /\ Label_Project \in DOMAIN labels[1]

(***************************************************************************)
(* C9 as amended: every volume and container so created carries the        *)
(* project label; its value is the manager's project name, and the         *)
(* listing yields the resource, whenever the caller's labels do not name   *)
(* the project key; when they do, the caller's value is the one attached.  *)
(***************************************************************************)
C9_ProjectLabelUnlessOverridden ==
    [][/\ \A name \in VolumeNames, labels \in CallerLabels :
            call_volume_create(name, labels) =>
                \A v \in volumes' \ volumes :
                    /\ Label_Project \in DOMAIN v.Labels[1]
                    /\ IF GivesProject(labels)
                       THEN v.Labels[1][Label_Project]
                                = labels[1][Label_Project]
                       ELSE /\ v.Labels[1][Label_Project] = project_name
                            /\ v \in volume_list(volumes')
       /\ \A service \in ServiceNames, kw \in FactoryKw :
            call_container_create(service, kw) =>
                \A c \in containers' \ containers :
                    /\ Label_Project \in DOMAIN c.labels
                    /\ IF GivesProject(kw.labels)
                       THEN c.labels[Label_Project]
                                = kw.labels[1][Label_Project]
                       ELSE /\ c.labels[Label_Project] = project_name
                            /\ c \in container_list(containers')]_vars

C9_Witness ==
    /\ op = "container_create" /\ raised = None
    /\ \E c \in containers :
            /\ c.name = ret
            /\ Get(c.labels, "owner") = "me"
            /\ Get(c.labels, Label_Project) = project_name
    /\ \E v \in volumes :
            /\ ~IsNull(v.Labels)
            /\ Get(v.Labels[1], Label_Volume) = "other"
            /\ Get(v.Labels[1], Label_Project) = project_name

\* what is to run for the entries s: each entry with its name by position
\* and its text, the empty entries left out
Numbered(s) ==
    [i \in 1..Len(s) |->
        <<"unholyscript-" \o ToString(i - 1),
          IF StartsWith(s[i], "#!") THEN s[i] ELSE "#!/bin/sh\n" \o s[i],
          s[i]>>]
NonEmptyEntry(e) == e[3] # ""
ToRun(s) ==
    LET kept == SelectSeq(Numbered(s), NonEmptyEntry)
    IN  [k \in 1..Len(kept) |-> <<kept[k][1], kept[k][2]>>]

\* what has run: name and text of each inject_and_run, in order
Ran == [k \in 1..Len(execs) |-> <<execs[k].name, execs[k].text>>]

(***************************************************************************)
(* C10: devenv_create runs exactly the non-empty entries of the script     *)
(* sequence, in order, each named unholyscript-{i} by its position i in    *)
(* the sequence as given, each text being the entry itself when it starts  *)
(* with #! and the entry after the default directive otherwise: when it    *)
(* returns, of all entries; in the loop, of those passed; when a script    *)
(* fails, of those up to the failing one.                                  *)
(***************************************************************************)
C10_ScriptsRunByPosition ==
    /\ (pc = "idle" /\ op = "devenv_create" /\ ret # None) =>
            /\ Ran = ToRun(scripts)
            /\ \A k \in 1..Len(execs) : execs[k].result = "ok"
    /\ pc = "dv_loop" => Ran = ToRun(SubSeq(scripts, 1, idx))
    /\ (pc = "idle" /\ op = "devenv_create" /\ raised = "ScriptError") =>
            Ran = ToRun(SubSeq(scripts, 1, idx + 1))

C10_Witness ==
    /\ pc = "idle" /\ op = "devenv_create" /\ ret # None
    /\ scripts = <<"", "echo a", "#!/bin/bash\necho b">>
    /\ Ran = << <<"unholyscript-1", "#!/bin/sh\necho a">>,
                <<"unholyscript-2", "#!/bin/bash\necho b">> >>

\* the devenv container is on the daemon, running
DevenvRunning ==
    \E con \in containers :
        /\ con.name = project_name \o "-" \o DEVENV_SERVICE \o "-1"
        /\ con.name = cont
        /\ con.status = "running"

(***************************************************************************)
(* C11: in devenv_create every script is executed after the calls that     *)
(* created and started the devenv container, both answered well, and in a  *)
(* running container; a script is begun only when each script before it    *)
(* has completed; when a script fails, devenv_create has ended raising     *)
(* that script's error and the failed script is the last that ran.         *)
(***************************************************************************)
C11_ScriptsAfterStartOneByOne ==
    /\ \A k \in CallsOf("container.exec") :
            /\ \E i \in CallsOf("containers.create"),
                  j \in CallsOf("container.start") :
                    /\ i < j /\ j < k
                    /\ calls[i].result = "ok"
                    /\ calls[j].result = "ok"
            /\ DevenvRunning
    /\ Len(execs) = Cardinality(CallsOf("container.exec"))
    /\ \A k \in 1..Len(execs) :
            execs[k].result = "failed" =>
                /\ k = Len(execs)
                /\ pc = "idle" /\ op = "devenv_create"
                /\ raised = "ScriptError" /\ ret = None
                /\ calls[Len(calls)] = Call("container.exec", "ScriptError")

C11_Witness ==
    /\ pc = "idle" /\ op = "devenv_create" /\ raised = "ScriptError"
    /\ Len(scripts) = 3 /\ idx = 1
    /\ Len(execs) = 2
    /\ execs[1].result = "ok" /\ execs[2].result = "failed"
    /\ scripts[3] # ""

(***************************************************************************)
(* C12: the name container_create asks the daemon for is                   *)
(* {project}-{service}-1 whatever the other arguments are, the container   *)
(* it makes has that name, and a container that holds the name already was *)
(* made for the same project and the same service: two different pairs of  *)
(* project and service never meet in one name.                             *)
(***************************************************************************)
C12_NameOfProjectAndServiceAlone ==
    [][\A service \in NamingServices, kw \in NamingKw :
        call_container_create(service, kw) =>
            LET name == project_name \o "-" \o service \o "-1"
            IN  /\ container_create(service, "busybox", kw).name = name
                /\ raised' = None =>
                        /\ ret' = name
                        /\ \E c \in containers' \ containers : c.name = name
                /\ \A c \in containers :
                        c.name = name =>
                            /\ c.labels[Label_Project] = project_name
                            /\ c.labels[Label_Service] = service]_vars

(***************************************************************************)
(* C13 as claimed: the labels of the container container_create makes are  *)
(* project and service overlaid with the caller's labels, and on top of    *)
(* that the one-off label, the string form of the boolean, exactly when a  *)
(* one-off value is given.                                                 *)
(***************************************************************************)
C13_OneOffFlagOnTop ==
    [][\A service \in ServiceNames, kw \in FactoryKw :
        call_container_create(service, kw) =>
            \A c \in containers' \ containers :
                LET caller == IF IsNull(kw.labels) THEN EmptyDict
                              ELSE kw.labels[1]
                IN  /\ DOMAIN c.labels \ {Label_OneOff} =
                            ({Label_Project, Label_Service} \cup DOMAIN caller)
                                \ {Label_OneOff}
                    /\ \A k \in DOMAIN c.labels \ {Label_OneOff} :
                            c.labels[k] =
                                IF k \in DOMAIN caller THEN caller[k]
                                ELSE IF k = Label_Project THEN project_name
                                ELSE service
                    /\ Label_OneOff \in DOMAIN c.labels <=> ~IsNull(kw.one_off)
                    /\ ~IsNull(kw.one_off) =>
                            c.labels[Label_OneOff] = ReprBool(kw.one_off[1])]_vars

(***************************************************************************)
(* C13 as amended: the labels are project, service and, when a one-off     *)
(* value is given, the one-off label with the string form of the boolean,  *)
(* all overlaid with the caller's labels: the caller's value wins for      *)
(* every key it names, the one-off key included, and the one-off label is  *)
(* there exactly when a one-off value is given or the caller names it.     *)
(***************************************************************************)
C13_CallerLabelsOverDefaults ==
    [][\A service \in ServiceNames, kw \in FactoryKw :
        call_container_create(service, kw) =>
            \A c \in containers' \ containers :
                LET caller == IF IsNull(kw.labels) THEN EmptyDict
                              ELSE kw.labels[1]
                IN  /\ DOMAIN c.labels =
                            {Label_Project, Label_Service} \cup DOMAIN caller
                            \cup (IF IsNull(kw.one_off) THEN {}
                                  ELSE {Label_OneOff})
                    /\ \A k \in DOMAIN c.labels :
                            c.labels[k] =
                                IF k \in DOMAIN caller THEN caller[k]
                                ELSE IF k = Label_Project THEN project_name
                                ELSE IF k = Label_Service THEN service
                                ELSE ReprBool(kw.one_off[1])]_vars

C13_Witness ==
    /\ op = "container_create" /\ raised = None
    /\ \E c \in containers, d \in containers :
            /\ c.name = ret
            /\ c.labels = (Label_Project :> project_name)
                          @@ (Label_Service :> "other")
                          @@ (Label_Volume :> "other")
                          @@ (Label_OneOff :> "False")
            /\ d.name # ret
            /\ Get(d.labels, Label_OneOff) = "no"

\* the caller's environment and mounts, none given read as empty
EnvOf(kw) == IF IsNull(kw.environment) THEN EmptyDict ELSE kw.environment[1]
MountsOf(kw) == IF IsNull(kw.mounts) THEN <<>> ELSE kw.mounts[1]

\* the container has the daemon endpoint in its environment and a bind mount
\* at the socket path, after the caller's mounts
HasSocket(c, kw) ==
    /\ ~IsNull(c.environment)
    /\ "DOCKER_HOST" \in DOMAIN c.environment[1]
    /\ c.environment[1]["DOCKER_HOST"] = "unix:///var/run/docker.sock"
    /\ DOMAIN c.environment[1] = DOMAIN EnvOf(kw) \cup {"DOCKER_HOST"}
    /\ ~IsNull(c.mounts)
    /\ Len(c.mounts[1]) = Len(MountsOf(kw)) + 1
    /\ SubSeq(c.mounts[1], 1, Len(MountsOf(kw))) = MountsOf(kw)
    /\ c.mounts[1][Len(c.mounts[1])].type = "bind"
    /\ c.mounts[1][Len(c.mounts[1])].target = "/var/run/docker.sock"

(***************************************************************************)
(* C14 as claimed: a container made with the passthrough has DOCKER_HOST   *)
(* set to the socket and a bind mount at the socket path, and has every    *)
(* environment entry and every mount the caller gave; one made without has *)
(* the caller's environment and mounts and nothing else.                   *)
(***************************************************************************)
C14_PassthroughKeepsEveryEntry ==
    [][\A service \in ServiceNames, kw \in SocketKw :
        call_container_create(service, kw) =>
            \A c \in containers' \ containers :
                IF kw.mount_docker_socket
                THEN /\ HasSocket(c, kw)
                     /\ \A k \in DOMAIN EnvOf(kw) :
                            c.environment[1][k] = EnvOf(kw)[k]
                ELSE /\ c.environment = kw.environment
                     /\ c.mounts = kw.mounts]_vars

(***************************************************************************)
(* C14 as amended: a container made with the passthrough has DOCKER_HOST   *)
(* set to the socket, whatever value the caller gave for it, and a bind    *)
(* mount at the socket path, and has every other environment entry and     *)
(* every mount the caller gave; one made without has the caller's          *)
(* environment and mounts and nothing else.                                *)
(***************************************************************************)
C14_PassthroughOverCallerEndpoint ==
    [][\A service \in ServiceNames, kw \in SocketKw :
        call_container_create(service, kw) =>
            \A c \in containers' \ containers :
                IF kw.mount_docker_socket
                THEN /\ HasSocket(c, kw)
                     /\ \A k \in DOMAIN EnvOf(kw) \ {"DOCKER_HOST"} :
                            c.environment[1][k] = EnvOf(kw)[k]
                ELSE /\ c.environment = kw.environment
                     /\ c.mounts = kw.mounts]_vars

C14_Witness ==
    /\ op = "container_create" /\ raised = None
    /\ \E c \in containers, d \in containers :
            /\ c.name = ret
            /\ c.environment = Some(("DOCKER_HOST" :> "unix:///var/run/docker.sock")
                                    @@ ("LANG" :> "C"))
            /\ Len(c.mounts[1]) = 2
            /\ c.mounts[1][1].target = PROJECT_MOUNTPOINT
            /\ c.mounts[1][2].type = "bind"
            /\ d.name # ret
            /\ d.environment = Some("LANG" :> "C")
            /\ d.mounts = Null

\* the daemon calls that make or start a container or make a volume
MakingCalls == {"containers.create", "container.start", "volumes.create"}

(***************************************************************************)
(* C15: bootstrap_spawn and devenv_create, called when the project has no  *)
(* workspace volume, end at once raising the precondition violation        *)
(* (AssertionError); the daemon's containers and volumes are as before and *)
(* no call creating or starting a container or creating a volume was made. *)
(***************************************************************************)
C15_NoWorkspaceNoContainer ==
    [][((bootstrap_spawn \/ devenv_create)
            /\ ProjectWorkspaces(volumes) = {}) =>
        /\ pc' = "idle"
        /\ raised' = "AssertionError"
        /\ containers' = containers
        /\ volumes' = volumes
        /\ \A k \in 1..Len(calls') : calls'[k].call \notin MakingCalls]_vars

\* bootstrap_spawn has just been refused, and so was a devenv_create before
\* it: the development image was pulled and no container came of it
C15_Witness ==
    /\ pc = "idle" /\ op = "bootstrap_spawn" /\ raised = "AssertionError"
    /\ ProjectWorkspaces(volumes) = {}
    /\ volumes = ForeignVolumes
    /\ containers = ForeignContainers
    /\ images = {BOOTSTRAP_IMAGE, dev_image}

(***************************************************************************)
(* C16: when a bootstrap session whose container was started and handed to *)
(* the caller has ended, the daemon calls made for the container are, in   *)
(* this order, create, start, stop and the removal attempt: stop and the   *)
(* removal attempt were both issued, whatever the caller's work did and    *)
(* whatever the daemon answered to stop.                                   *)
(***************************************************************************)
C16_StopThenRemoveOnEveryExit ==
    SessionEnded =>
        \E i \in CallsOf("containers.create"), j \in CallsOf("container.start"),
           k \in CallsOf("container.stop"), l \in CallsOf("container.remove") :
            /\ i < j /\ j < k /\ k < l
            /\ calls[i].result = "ok"
            /\ calls[j].result = "ok"

(***************************************************************************)
(* C17: bootstrap_spawn and devenv_create, called when the project has its *)
(* workspace and the daemon holds a container of the name                  *)
(* {project}-{service}-1 already, end raising the daemon's refusal of the  *)
(* name (an APIError) as the answer to the create call; the daemon's       *)
(* containers are as before, none added, the one of that name neither      *)
(* started, stopped nor removed, and no script was executed.               *)
(***************************************************************************)
C17_NameInUseIsSurfaced ==
    [][\A service \in {BOOTSTRAP_SERVICE, DEVENV_SERVICE} :
        (/\ IF service = BOOTSTRAP_SERVICE THEN bootstrap_spawn
            ELSE devenv_create
         /\ ProjectWorkspaces(volumes) # {}
         /\ \E c \in containers :
                c.name = project_name \o "-" \o service \o "-1") =>
            /\ pc' = "idle"
            /\ raised' = "APIError"
            /\ ret' = None
            /\ containers' = containers
            /\ execs' = <<>>
            /\ calls'[Len(calls')] = Call("containers.create", "APIError")
            /\ \A k \in 1..Len(calls') :
                    calls'[k].call \notin
                        {"container.start", "container.stop",
                         "container.remove", "container.exec"}]_vars

\* devenv_create has been refused the name its running container holds, and
\* the container of an earlier bootstrap session is there as well
C17_Witness ==
    /\ pc = "idle" /\ op = "devenv_create" /\ raised = "APIError"
    /\ calls[Len(calls)] = Call("containers.create", "APIError")
    /\ \E c \in containers :
            /\ c.name = project_name \o "-" \o DEVENV_SERVICE \o "-1"
            /\ c.status = "running"
    /\ \E c \in containers :
            c.name = project_name \o "-" \o BOOTSTRAP_SERVICE \o "-1"

(***************************************************************************)
(* C18: when bootstrap_spawn has ended because the daemon failed the start *)
(* of the container it had created, the daemon holds no bootstrap          *)
(* container of the project.                                               *)
(***************************************************************************)
C18_NoContainerAfterFailedStart ==
    (/\ pc = "idle" /\ op = "bootstrap_spawn"
     /\ \E k \in CallsOf("container.start") : calls[k].result = "APIError")
    => ~BootstrapListed

\* the devenv container is among cons, running, and is the one devenv_get
\* finds there, whichever order the daemon lists its containers in
DevenvUp(cons) ==
    \E c \in cons :
        /\ c.name = project_name \o "-" \o DEVENV_SERVICE \o "-1"
        /\ c.status = "running"
        /\ {con \in container_list(cons) :
                Get(con.labels, Label_Service) = DEVENV_SERVICE} = {c}
        /\ devenv_get(cons) = Some(c)

(***************************************************************************)
(* C19: the step of devenv_create that creates and starts the devenv       *)
(* container leaves it on the daemon, running, as the one devenv_get       *)
(* returns; every later step keeps it so, the turns of the script loop     *)
(* that run a script well or see it fail and the return included; and      *)
(* what devenv_create returns is that container.                           *)
(***************************************************************************)
C19_DevenvStaysAndIsFound ==
    [][/\ (devenv_create /\ pc' = "dv_loop") =>
            /\ DevenvUp(containers')
            /\ cont' = devenv_get(containers')[1].name
       /\ DevenvUp(containers) => DevenvUp(containers')
       /\ (devenv_script \/ devenv_return) =>
            /\ DevenvUp(containers')
            /\ cont' = devenv_get(containers')[1].name
            /\ pc' = "idle" => (ret' = cont' \/ raised' = "ScriptError")]_vars

\* devenv_create has ended on a failed script after one that ran well, and
\* the container is there
C19_Witness ==
    /\ pc = "idle" /\ op = "devenv_create" /\ raised = "ScriptError"
    /\ Len(execs) > 1
    /\ DevenvUp(containers)
    /\ devenv_get(containers)[1].name = cont
    /\ containers # {devenv_get(containers)[1]}

\* the working directory and all its ancestors, the root among them
UpToRoot(path) == {SubSeq(path, 1, n) : n \in 0..Len(path)}

(***************************************************************************)
(* C20: when find_compose has ended, it has returned the                   *)
(* docker-compose.yml of the nearest directory with one among the working  *)
(* directory and all its ancestors, the file system's root included, and   *)
(* it has raised FileNotFoundError exactly when none of them has one.      *)
(***************************************************************************)
C20_NearestUpToTheRoot ==
    (pc = "idle" /\ op = "find_compose") =>
        LET holders == UpToRoot(cwd) \cap compose_dirs
        IN  IF holders = {}
            THEN raised = "FileNotFoundError"
            ELSE /\ raised = None
                 /\ \E near \in holders :
                        /\ \A dir \in holders : Len(dir) <= Len(near)
                        /\ ret = as_posix(Append(near, "docker-compose.yml"))

====
